---- MODULE Spec2Model ----
(***************************************************************************)
(* Model of the AIDL front end's AST node model (aidl_language.h): the     *)
(* diagnostic emitter AidlError, AidlTypeSpecifier and its resolution,     *)
(* AidlArgument / AidlMethod, the AidlMember and AidlDefinedType class     *)
(* hierarchies, AidlDocument, and the Parser's parse-then-resolve          *)
(* orchestration.                                                          *)
(*                                                                         *)
(* Names are sequences of identifier terms (a.b.c.Foo is                   *)
(* <<"a","b","c","Foo">>); the empty string is the empty sequence.         *)
(* Objects live in heaps (sequences); a pointer is an index, nullptr is 0. *)
(***************************************************************************)
EXTENDS Integers, Sequences, FiniteSets, TLC

\* ---------------------------------------------------------------- bounds
MaxTypes == 3
MaxImports == 1
MaxErrors == 2
MaxDiags == 2
MaxPieces == 2
MaxArgs == 3
MaxMembers == 2
MaxDefined == 3
MaxImportNodes == 2
MaxDocuments == 2

\* ------------------------------------------------------------ input sets
nullptr == 0
EmptyString == <<>>

PackageNames == {<<"a", "b">>}
ImportNames == {<<"a", "b", "c", "Foo">>, <<"a", "b", "c", "Baz">>}
WrittenNames == {<<"Foo">>, <<"Baz">>, <<"int">>}
GenericNames == {<<"List">>}
BuiltinNames == {<<"int">>, <<"List">>}
Contexts == {"file.aidl", "file.aidl:1:2"}
ParseContexts == {"file.aidl:1:2"}
Messages == {"syntax error"}
Filenames == {"a/b/c/Foo.aidl", "x/Foo.aidl"}
Pieces == {"Failed to resolve ", "'Foo'"}
MemberClasses == {"AidlMember", "AidlConstantDeclaration", "AidlMethod"}
DefinedTypeClasses == {"AidlDefinedType", "AidlParcelable",
                       "AidlStructuredParcelable", "AidlInterface"}

Last(s) == s[Len(s)]
Range(s) == {s[i] : i \in DOMAIN s}

VARIABLES
  phase,                  \* Parser: "Parsing", "Resolving", "Done"
  line,                   \* the scanner's position: declarations read so far
  error_,                 \* Parser::error_
  package_,               \* Parser::package_ (EmptyString: not set)
  imports_,               \* Parser::imports_ (needed classes, in order)
  typespecs,              \* heap of AidlTypeSpecifier objects
  unresolved_typespecs_,  \* Parser::unresolved_typespecs_ (pointers)
  typenames_,             \* the symbol table Parser::typenames_ refers to
  resolve_idx,            \* Parser::Resolve: position in the deferred list
  resolve_success,        \* Parser::Resolve: the aggregated result so far
  resolve_result,         \* what Parser::Resolve returned ("none" before)
  cerr,                   \* the diagnostic stream: sequence of written pieces
  emitter,                \* the AidlError object: [pc, fatal_]
  aborted,                \* the process has called abort()
  members,                \* heap of AidlMember objects
  defined,                \* heap of AidlDefinedType objects
  defined_types_,         \* AidlDocument::defined_types_ (pointers)
  released,               \* what the last ReleaseDefinedType returned
  import_nodes,           \* heap of AidlImport objects
  last_call               \* the latest call made on an AidlImport

parserVars == <<phase, line, error_, package_, imports_, typespecs,
                unresolved_typespecs_, typenames_, resolve_idx,
                resolve_success, resolve_result>>
diagVars == <<emitter, aborted>>
astVars == <<members, defined, defined_types_, released, import_nodes,
             last_call>>
vars == <<parserVars, cerr, diagVars, astVars>>

\* ------------------------------------------------------------- AidlError
\* private AidlError(fatal, os): os_ << "ERROR: "
AidlErrorInit(os) == Append(os, "ERROR: ")

\* AidlError(fatal, os, filename / location): delegates to the private
\* constructor first, then os_ << context << ": "
AidlErrorCtor(os, context) == AidlErrorInit(os) \o <<context, ": ">>

\* .os_ << message
AidlErrorStream(os, message) == Append(os, message)

AidlErrorDtor_alwaysAbort(os, fatal) ==
  [os |-> Append(os, "\n"), abort |-> TRUE]

\* ~AidlError: os_ << std::endl; if (fatal_) abort();
AidlErrorDtor(os, fatal) ==
  [os |-> Append(os, "\n"), abort |-> fatal]

\* AIDL_ERROR(CONTEXT) << message; as one full expression
AIDL_ERROR(os, context, message) ==
  AidlErrorDtor(AidlErrorStream(AidlErrorCtor(os, context), message), FALSE)

\* ----------------------------------------------------- AidlTypeSpecifier
\* AidlTypeSpecifier(location, unresolved_name, is_array, type_params, ..)
NewTypeSpecifier(location, unresolved_name, is_array, type_params) ==
  [location_ |-> location,
   unresolved_name_ |-> unresolved_name,
   fully_qualified_name_ |-> EmptyString,
   is_array_ |-> is_array,
   type_params_ |-> type_params]

GetUnresolvedName(t) == t.unresolved_name_

IsResolved_inverted(t) == t.fully_qualified_name_ = EmptyString

\* bool IsResolved() const { return fully_qualified_name_ != ""; }
IsResolved(t) == t.fully_qualified_name_ # EmptyString

GetName_unresolved(t) == GetUnresolvedName(t)

\* const string& GetName() const
GetName(t) ==
  IF IsResolved(t) THEN t.fully_qualified_name_ ELSE GetUnresolvedName(t)

IsArray(t) == t.is_array_

\* type_params_ is a unique_ptr to a vector: {} when null, {v} when it
\* owns the vector v of pointers to the parameter specifiers
IsGeneric(t) == t.type_params_ # {}

GetTypeParameters(t) == CHOOSE v \in t.type_params_ : TRUE

\* AidlTypenames::ResolveTypename: built-in names first, then the names of
\* imported / defined types, by canonical name or by their last term.
Candidates(name, table) ==
  {c \in table : c = name \/ (Len(name) = 1 /\ Last(c) = name[1])}

ResolveTypename(name, table) ==
  IF name \in BuiltinNames THEN [first |-> name, second |-> TRUE]
  ELSE IF Candidates(name, table) # {}
       THEN [first |-> CHOOSE c \in Candidates(name, table) : TRUE,
             second |-> TRUE]
       ELSE [first |-> EmptyString, second |-> FALSE]

\* bool AidlTypeSpecifier::Resolve(typenames): the object after the call
\* and the returned flag
TypeSpecifierResolve(t, table) ==
  LET result == ResolveTypename(t.unresolved_name_, table)
  IN [obj |-> IF result.second
              THEN [t EXCEPT !.fully_qualified_name_ = result.first]
              ELSE t,
      ret |-> result.second]

\* ---------------------------------------------------------- AidlArgument
\* enum Direction { IN_DIR = 1, OUT_DIR = 2, INOUT_DIR = 3 }
IN_DIR == 1
OUT_DIR == 2
INOUT_DIR == 3
Directions == {IN_DIR, OUT_DIR, INOUT_DIR}

\* a & b on the two low bits
BitAnd(a, b) ==
  (IF a % 2 = 1 /\ b % 2 = 1 THEN 1 ELSE 0)
  + (IF (a \div 2) % 2 = 1 /\ (b \div 2) % 2 = 1 THEN 2 ELSE 0)

IsOut_onlyOut(direction) == direction = OUT_DIR

\* bool IsOut() const { return direction_ & OUT_DIR; }
IsOut(direction) == BitAnd(direction, OUT_DIR) # 0

\* bool IsIn() const { return direction_ & IN_DIR; }
IsIn(direction) == BitAnd(direction, IN_DIR) # 0

\* ------------------------------------------------------- class hierarchy
\* class X : public Parent[X]
Parent ==
  [AidlMember |-> "AidlNode",
   AidlConstantDeclaration |-> "AidlMember",
   AidlMethod |-> "AidlMember",
   AidlDefinedType |-> "AidlAnnotatable",
   AidlParcelable |-> "AidlDefinedType",
   AidlStructuredParcelable |-> "AidlParcelable",
   AidlInterface |-> "AidlDefinedType"]

\* virtual member functions whose body in the class is { return nullptr; }
ReturnsNull ==
  {<<"AidlMember", "AsMethod">>,
   <<"AidlMember", "AsConstantDeclaration">>,
   <<"AidlDefinedType", "AsStructuredParcelable">>,
   <<"AidlDefinedType", "AsParcelable">>,
   <<"AidlDefinedType", "AsInterface">>}

\* overrides whose body in the class is { return this; }
ReturnsThis ==
  {<<"AidlConstantDeclaration", "AsConstantDeclaration">>,
   <<"AidlMethod", "AsMethod">>,
   <<"AidlParcelable", "AsParcelable">>,
   <<"AidlStructuredParcelable", "AsStructuredParcelable">>,
   <<"AidlInterface", "AsInterface">>}

\* pure virtual declarations ( = 0 ) and the classes that implement them
PureVirtual ==
  {<<"AidlDefinedType", "GetPreprocessDeclarationName">>,
   <<"AidlDefinedType", "Write">>}

Implements ==
  {<<"AidlParcelable", "GetPreprocessDeclarationName">>,
   <<"AidlParcelable", "Write">>,
   <<"AidlStructuredParcelable", "GetPreprocessDeclarationName">>,
   <<"AidlStructuredParcelable", "Write">>,
   <<"AidlInterface", "GetPreprocessDeclarationName">>,
   <<"AidlInterface", "Write">>}

\* the final overrider of a virtual function in the dynamic class cls:
\* "this", "null", "impl", "pure", or "none" when no class declares it
RECURSIVE FinalOverrider(_, _)
FinalOverrider(cls, method) ==
  IF <<cls, method>> \in ReturnsThis THEN "this"
  ELSE IF <<cls, method>> \in ReturnsNull THEN "null"
  ELSE IF <<cls, method>> \in Implements THEN "impl"
  ELSE IF <<cls, method>> \in PureVirtual THEN "pure"
  ELSE IF cls \in DOMAIN Parent THEN FinalOverrider(Parent[cls], method)
  ELSE "none"

\* a class with a pure virtual final overrider is abstract
IsAbstract(cls) ==
  \E pv \in PureVirtual : FinalOverrider(cls, pv[2]) = "pure"

\* the call p->method() on the object at p of dynamic class cls
VirtualCall(p, cls, method) ==
  IF FinalOverrider(cls, method) = "this" THEN p ELSE nullptr

\* ------------------------------------------------------------ AidlMember
AsMethod(p) == VirtualCall(p, members[p].class, "AsMethod")

AsConstantDeclaration(p) ==
  VirtualCall(p, members[p].class, "AsConstantDeclaration")

\* ------------------------------------------------------------ AidlMethod
\* the constructor's scan of arguments_: the pointers (indices) of the
\* arguments accepted by the direction test
RECURSIVE ScanIn(_, _)
ScanIn(arguments, i) ==
  IF i > Len(arguments) THEN <<>>
  ELSE (IF IsIn(arguments[i]) THEN <<i>> ELSE <<>>)
       \o ScanIn(arguments, i + 1)

RECURSIVE ScanOut(_, _)
ScanOut(arguments, i) ==
  IF i > Len(arguments) THEN <<>>
  ELSE (IF IsOut(arguments[i]) THEN <<i>> ELSE <<>>)
       \o ScanOut(arguments, i + 1)

\* AidlMethod(location, oneway, type, name, args, comments)
NewMethod(args) ==
  [class |-> "AidlMethod",
   arguments_ |-> args,
   in_arguments_ |-> ScanIn(args, 1),
   out_arguments_ |-> ScanOut(args, 1)]

\* AidlMember(location) / AidlConstantDeclaration(location, ...)
NewPlainMember(cls) ==
  [class |-> cls, arguments_ |-> <<>>, in_arguments_ |-> <<>>,
   out_arguments_ |-> <<>>]

GetArguments(m) == m.arguments_
GetInArguments(m) == m.in_arguments_
GetOutArguments(m) == m.out_arguments_

\* ------------------------------------------------------- AidlDefinedType
AsStructuredParcelable(p) ==
  VirtualCall(p, defined[p].class, "AsStructuredParcelable")

AsParcelable(p) == VirtualCall(p, defined[p].class, "AsParcelable")

AsInterface(p) == VirtualCall(p, defined[p].class, "AsInterface")

AsUnstructuredParcelable_unchecked(p) == AsParcelable(p)

\* if (this->AsStructuredParcelable() != nullptr) return nullptr;
\* return this->AsParcelable();
AsUnstructuredParcelable(p) ==
  IF AsStructuredParcelable(p) # nullptr THEN nullptr ELSE AsParcelable(p)

\* ---------------------------------------------------------- AidlDocument
GetDefinedTypes(doc) == doc

AddDefinedType_twice(doc, defined_type) ==
  Append(Append(doc, defined_type), defined_type)

\* defined_types_.push_back(std::unique_ptr<AidlDefinedType>(defined_type))
AddDefinedType(doc, defined_type) == Append(doc, defined_type)

\* AidlDocument::ReleaseDefinedType: the unique_ptr at slot i gives up its
\* object; the slot stays in the vector, holding nullptr
ReleaseSlot(doc, i) ==
  [doc |-> [doc EXCEPT ![i] = nullptr], ret |-> doc[i]]

\* ---------------------------------------------------------------- Parser
AddError_noop(e) == e

\* void AddError() { error_++; }
AddError(e) == e + 1

DeferResolution_drop(list, typespec) ==
  IF list = <<>> THEN <<typespec>> ELSE list

DeferResolution_front(list, typespec) == <<typespec>> \o list

\* unresolved_typespecs_.emplace_back(typespec)
DeferResolution(list, typespec) == Append(list, typespec)

\* AidlImport(location, needed_class)
NewImport(location, needed_class) ==
  [location_ |-> location, needed_class_ |-> needed_class,
   filename_ |-> "", imported_doc_ |-> nullptr]

GetNeededClass(import) == import.needed_class_

GetFilename(import) == import.filename_

\* return imported_doc_.get()
GetAidlDocument(import) == import.imported_doc_

SetFilename_clearsDocument(import, filename) ==
  [import EXCEPT !.filename_ = filename, !.imported_doc_ = nullptr]

\* void SetFilename(filename) { filename_ = filename; }
SetFilename(import, filename) == [import EXCEPT !.filename_ = filename]

\* void SetAidlDocument(doc) { imported_doc_ = std::move(doc); }
SetAidlDocument(import, doc) == [import EXCEPT !.imported_doc_ = doc]

\* Parser::AddImport: imports_.emplace_back(import)
AddImport(list, import) == Append(list, import)

Init ==
  /\ phase = "Parsing"
  /\ line = 1
  /\ error_ = 0
  /\ package_ = EmptyString
  /\ imports_ = <<>>
  /\ typespecs = <<>>
  /\ unresolved_typespecs_ = <<>>
  /\ typenames_ = BuiltinNames
  /\ resolve_idx = 1
  /\ resolve_success = TRUE
  /\ resolve_result = "none"
  /\ cerr = <<>>
  /\ emitter = [pc |-> "none", fatal_ |-> FALSE]
  /\ aborted = FALSE
  /\ members = <<>>
  /\ defined = <<>>
  /\ defined_types_ = <<>>
  /\ released = nullptr
  /\ import_nodes = <<>>
  /\ last_call = [op |-> "none", import |-> nullptr]

\* grammar: package declaration, first in the unit -> Parser::SetPackage
ParsePackage ==
  /\ phase = "Parsing"
  /\ package_ = EmptyString /\ imports_ = <<>> /\ typespecs = <<>>
  /\ \E name \in PackageNames : package_' = name
  /\ UNCHANGED <<phase, line, error_, imports_, typespecs, unresolved_typespecs_,
                 typenames_, resolve_idx, resolve_success, resolve_result,
                 cerr, diagVars, astVars>>

\* grammar: import declaration -> Parser::AddImport
ParseImport ==
  /\ phase = "Parsing"
  /\ Len(imports_) < MaxImports
  /\ \E needed_class \in ImportNames :
       imports_' = AddImport(imports_, NewImport(line, needed_class))
  /\ line' = line + 1
  /\ UNCHANGED <<phase, error_, package_, typespecs, unresolved_typespecs_,
                 typenames_, resolve_idx, resolve_success, resolve_result,
                 cerr, diagVars, astVars>>

\* grammar: a type reference -> new AidlTypeSpecifier, DeferResolution
ParseType ==
  /\ phase = "Parsing"
  /\ Len(typespecs) < MaxTypes
  /\ \E name \in WrittenNames, is_array \in BOOLEAN :
       LET p == Len(typespecs) + 1
       IN /\ typespecs' = Append(typespecs,
                                 NewTypeSpecifier(line, name, is_array, {}))
          /\ unresolved_typespecs_' =
               DeferResolution(unresolved_typespecs_, p)
  /\ line' = line + 1
  /\ UNCHANGED <<phase, error_, package_, imports_, typenames_, resolve_idx,
                 resolve_success, resolve_result, cerr, diagVars, astVars>>

\* grammar: a generic type reference name<param>: the parameter is reduced
\* (created and deferred) first, then the enclosing specifier
ParseGenericType ==
  /\ phase = "Parsing"
  /\ Len(typespecs) + 1 < MaxTypes
  /\ \E name \in GenericNames, param \in WrittenNames,
        is_array \in BOOLEAN :
       LET p == Len(typespecs) + 1
       IN /\ typespecs' = typespecs \o
               <<NewTypeSpecifier(line, param, FALSE, {}),
                 NewTypeSpecifier(line, name, is_array, {<<p>>})>>
          /\ unresolved_typespecs_' =
               DeferResolution(DeferResolution(unresolved_typespecs_, p),
                               p + 1)
  /\ line' = line + 1
  /\ UNCHANGED <<phase, error_, package_, imports_, typenames_, resolve_idx,
                 resolve_success, resolve_result, cerr, diagVars, astVars>>

\* grammar error handler: AIDL_ERROR(location) << message; ps->AddError()
ParseError ==
  /\ phase = "Parsing"
  /\ error_ < MaxErrors
  /\ \E context \in ParseContexts, message \in Messages :
       cerr' = AIDL_ERROR(cerr, context, message).os
  /\ error_' = AddError(error_)
  /\ UNCHANGED <<phase, line, package_, imports_, typespecs, unresolved_typespecs_,
                 typenames_, resolve_idx, resolve_success, resolve_result,
                 diagVars, astVars>>

\* end of the unit: the imported units are loaded into the symbol table,
\* which is complete when Parser::Resolve starts
EndParse ==
  /\ phase = "Parsing"
  /\ phase' = "Resolving"
  /\ typenames_' = typenames_ \cup
       {GetNeededClass(imports_[i]) : i \in DOMAIN imports_}
  /\ UNCHANGED <<line, error_, package_, imports_, typespecs,
                 unresolved_typespecs_, resolve_idx, resolve_success,
                 resolve_result, cerr, diagVars, astVars>>

\* Parser::Resolve, one iteration of the loop over unresolved_typespecs_
ResolveStep ==
  /\ phase = "Resolving"
  /\ resolve_idx <= Len(unresolved_typespecs_)
  /\ LET p == unresolved_typespecs_[resolve_idx]
         r == TypeSpecifierResolve(typespecs[p], typenames_)
     IN /\ typespecs' = [typespecs EXCEPT ![p] = r.obj]
        /\ resolve_success' = (resolve_success /\ r.ret)
  /\ resolve_idx' = resolve_idx + 1
  /\ UNCHANGED <<phase, line, error_, package_, imports_, unresolved_typespecs_,
                 typenames_, resolve_result, cerr, diagVars, astVars>>

\* Parser::Resolve, return success
ResolveReturn ==
  /\ phase = "Resolving"
  /\ resolve_idx > Len(unresolved_typespecs_)
  /\ resolve_result' = IF resolve_success THEN "success" ELSE "failure"
  /\ phase' = "Done"
  /\ UNCHANGED <<line, error_, package_, imports_, typespecs,
                 unresolved_typespecs_, typenames_, resolve_idx,
                 resolve_success, cerr, diagVars, astVars>>

Next ==
  \/ ParsePackage
  \/ ParseImport
  \/ ParseType
  \/ ParseGenericType
  \/ ParseError
  \/ EndParse
  \/ ResolveStep
  \/ ResolveReturn

Spec == Init /\ [][Next]_vars

\* ------------------------------------------------- the diagnostic emitter
NumDiags(os) == Cardinality({i \in DOMAIN os : os[i] = "ERROR: "})

\* the number of message pieces streamed into the diagnostic being written
RECURSIVE TrailingPieces(_)
TrailingPieces(os) ==
  IF os = <<>> \/ Last(os) \notin Pieces THEN 0
  ELSE 1 + TrailingPieces(SubSeq(os, 1, Len(os) - 1))

\* AIDL_ERROR(context) / AIDL_FATAL(context): the temporary is constructed
EmitterCtor ==
  /\ ~aborted
  /\ emitter.pc # "constructed"
  /\ NumDiags(cerr) < MaxDiags
  /\ \E fatal \in BOOLEAN, context \in Contexts :
       /\ cerr' = AidlErrorCtor(cerr, context)
       /\ emitter' = [pc |-> "constructed", fatal_ |-> fatal]
  /\ UNCHANGED <<parserVars, aborted, astVars>>

\* ... << piece: the message is streamed into os_
EmitterStream ==
  /\ ~aborted
  /\ emitter.pc = "constructed"
  /\ TrailingPieces(cerr) < MaxPieces
  /\ \E piece \in Pieces : cerr' = AidlErrorStream(cerr, piece)
  /\ UNCHANGED <<parserVars, diagVars, astVars>>

\* end of the full expression: ~AidlError
EmitterDtor ==
  /\ ~aborted
  /\ emitter.pc = "constructed"
  /\ LET r == AidlErrorDtor(cerr, emitter.fatal_)
     IN /\ cerr' = r.os
        /\ aborted' = r.abort
  /\ emitter' = [emitter EXCEPT !.pc = "destroyed"]
  /\ UNCHANGED <<parserVars, astVars>>

NextDiag ==
  \/ EmitterCtor
  \/ EmitterStream
  \/ EmitterDtor

SpecDiag == Init /\ [][NextDiag]_vars

\* ------------------------------------------------------- building the AST
BoundedSeq(S, n) == UNION {[1..k -> S] : k \in 0..n}

ConstructibleMemberClasses == {c \in MemberClasses : ~IsAbstract(c)}
ConstructibleDefinedTypeClasses == {c \in DefinedTypeClasses : ~IsAbstract(c)}

\* new AidlMethod(..., args, ...)
CreateMethod ==
  /\ Len(members) < MaxMembers
  /\ "AidlMethod" \in ConstructibleMemberClasses
  /\ \E args \in BoundedSeq(Directions, MaxArgs) :
       members' = Append(members, NewMethod(args))
  /\ UNCHANGED <<parserVars, cerr, diagVars, import_nodes, last_call,
                 defined, defined_types_,
                 released>>

\* new AidlConstantDeclaration(...) or AidlMember(location)
CreateMember ==
  /\ Len(members) < MaxMembers
  /\ \E cls \in ConstructibleMemberClasses \ {"AidlMethod"} :
       members' = Append(members, NewPlainMember(cls))
  /\ UNCHANGED <<parserVars, cerr, diagVars, import_nodes, last_call,
                 defined, defined_types_,
                 released>>

\* grammar: a parcelable / interface declaration is constructed and handed
\* to AidlDocument::AddDefinedType
DeclareType ==
  /\ Len(defined) < MaxDefined
  /\ \E cls \in ConstructibleDefinedTypeClasses :
       defined' = Append(defined, [class |-> cls])
  /\ defined_types_' = AddDefinedType(defined_types_, Len(defined) + 1)
  /\ UNCHANGED <<parserVars, cerr, diagVars, import_nodes, last_call,
                 members, released>>

\* AidlDocument::ReleaseDefinedType: returns nullptr and keeps the list, or
\* transfers one of the types the document still owns to the caller
ReleaseDefinedType ==
  /\ \/ /\ released' = nullptr
        /\ UNCHANGED defined_types_
     \/ \E i \in DOMAIN defined_types_ :
          /\ defined_types_[i] # nullptr
          /\ defined_types_' = ReleaseSlot(defined_types_, i).doc
          /\ released' = ReleaseSlot(defined_types_, i).ret
  /\ UNCHANGED <<parserVars, cerr, diagVars, import_nodes, last_call,
                 members, defined>>

NextMember ==
  \/ CreateMethod
  \/ CreateMember

SpecMember == Init /\ [][NextMember]_vars

NextDocument ==
  \/ DeclareType
  \/ ReleaseDefinedType

SpecDocument == Init /\ [][NextDocument]_vars

\* ------------------------------------------------------------ AidlImport
\* new AidlImport(location, needed_class)
CreateImport ==
  /\ Len(import_nodes) < MaxImportNodes
  /\ \E needed_class \in ImportNames :
       import_nodes' = Append(import_nodes, NewImport(1, needed_class))
  /\ last_call' = [op |-> "AidlImport", import |-> Len(import_nodes) + 1]
  /\ UNCHANGED <<parserVars, cerr, diagVars, members, defined,
                 defined_types_, released>>

\* import->SetFilename(filename)
CallSetFilename ==
  /\ \E p \in DOMAIN import_nodes, filename \in Filenames :
       /\ import_nodes' =
            [import_nodes EXCEPT ![p] = SetFilename(@, filename)]
       /\ last_call' = [op |-> "SetFilename", import |-> p,
                        filename |-> filename]
  /\ UNCHANGED <<parserVars, cerr, diagVars, members, defined,
                 defined_types_, released>>

\* import->SetAidlDocument(std::move(doc)); doc may hold no document
CallSetAidlDocument ==
  /\ \E p \in DOMAIN import_nodes, doc \in 0..MaxDocuments :
       /\ import_nodes' =
            [import_nodes EXCEPT ![p] = SetAidlDocument(@, doc)]
       /\ last_call' = [op |-> "SetAidlDocument", import |-> p, doc |-> doc]
  /\ UNCHANGED <<parserVars, cerr, diagVars, members, defined,
                 defined_types_, released>>

NextImport ==
  \/ CreateImport
  \/ CallSetFilename
  \/ CallSetAidlDocument

SpecImport == Init /\ [][NextImport]_vars

\* ================================================================ claims
\* C1: Parser::Resolve processes the registered specifiers in registration
\* order (while it runs, exactly the specifiers before its position have
\* been given their chance to resolve, and its running result is success
\* iff all of those resolved), and it returns success iff every specifier
\* registered during parsing resolved: one failure anywhere fails the unit.
C1_ResolveAggregates ==
  /\ phase = "Resolving" =>
       /\ \A p \in DOMAIN typespecs :
            p >= resolve_idx => ~IsResolved(typespecs[p])
       /\ resolve_success <=>
            \A p \in DOMAIN typespecs :
              p < resolve_idx => IsResolved(typespecs[p])
  /\ phase = "Done" =>
       /\ resolve_result \in {"success", "failure"}
       /\ resolve_result = "success" <=>
            \A p \in DOMAIN typespecs : IsResolved(typespecs[p])

C1_FailureInTheMiddle ==
  /\ phase = "Done"
  /\ resolve_result = "failure"
  /\ Len(typespecs) = 3
  /\ IsResolved(typespecs[1])
  /\ ~IsResolved(typespecs[2])
  /\ IsResolved(typespecs[3])

\* C2: with package a.b and an import of a.b.c.Foo, every specifier
\* written Foo is resolved (to a.b.c.Foo) once Parser::Resolve has run,
\* wherever the import stands relative to the use, and Resolve succeeds
\* when nothing else is unresolvable.
C2_ForwardReferenceResolves ==
  (/\ phase = "Done"
   /\ package_ = <<"a", "b">>
   /\ \E i \in DOMAIN imports_ :
        GetNeededClass(imports_[i]) = <<"a", "b", "c", "Foo">>)
  =>
  /\ \A p \in DOMAIN typespecs :
       GetUnresolvedName(typespecs[p]) = <<"Foo">> =>
         /\ IsResolved(typespecs[p])
         /\ GetName(typespecs[p]) = <<"a", "b", "c", "Foo">>
  /\ (\A p \in DOMAIN typespecs :
        GetUnresolvedName(typespecs[p]) = <<"Foo">>)
     => resolve_result = "success"

C2_UseBeforeImport ==
  /\ phase = "Done"
  /\ package_ = <<"a", "b">>
  /\ resolve_result = "success"
  /\ \E p \in DOMAIN typespecs, i \in DOMAIN imports_ :
       /\ GetUnresolvedName(typespecs[p]) = <<"Foo">>
       /\ GetNeededClass(imports_[i]) = <<"a", "b", "c", "Foo">>
       /\ typespecs[p].location_ < imports_[i].location_
       /\ GetName(typespecs[p]) = <<"a", "b", "c", "Foo">>

\* C3 (as stated): IsResolved() iff GetName() is the fully-qualified name,
\* ~IsResolved() iff GetName() is the written unresolved name, and
\* IsResolved() iff the stored fully-qualified name is non-empty.
C3_Original ==
  \A p \in DOMAIN typespecs :
    LET t == typespecs[p]
    IN /\ IsResolved(t) <=> GetName(t) = t.fully_qualified_name_
       /\ ~IsResolved(t) <=> GetName(t) = GetUnresolvedName(t)
       /\ IsResolved(t) <=> t.fully_qualified_name_ # EmptyString

\* C3 (amended): IsResolved() iff GetName() is the stored fully-qualified
\* name, iff that name is non-empty; an unresolved specifier's GetName() is
\* the written name, and a resolved specifier's GetName() equals the
\* written name only when its canonical name is the written name.
C3_NameAccessor ==
  \A p \in DOMAIN typespecs :
    LET t == typespecs[p]
    IN /\ IsResolved(t) <=> GetName(t) = t.fully_qualified_name_
       /\ ~IsResolved(t) => GetName(t) = GetUnresolvedName(t)
       /\ (IsResolved(t) /\ GetName(t) = GetUnresolvedName(t))
            => t.fully_qualified_name_ = t.unresolved_name_
       /\ IsResolved(t) <=> t.fully_qualified_name_ # EmptyString

C3_ResolvedAndUnresolved ==
  /\ phase = "Done"
  /\ \E p, q, r \in DOMAIN typespecs :
       /\ IsResolved(typespecs[p])
       /\ GetName(typespecs[p]) # GetUnresolvedName(typespecs[p])
       /\ ~IsResolved(typespecs[q])
       /\ IsResolved(typespecs[r])
       /\ GetName(typespecs[r]) = GetUnresolvedName(typespecs[r])

\* C4: a call of AidlTypeSpecifier::Resolve on a specifier whose base name
\* is in the symbol table stores the canonical name and returns success;
\* when the name is not there it returns failure and leaves the object as
\* it was.  Which of the two happens is decided by the base name alone,
\* and the array flag and the type parameters are never changed.
InSymbolTable(name) ==
  \/ name \in BuiltinNames
  \/ \E c \in typenames_ : c = name \/ <<Last(c)>> = name

CanonicalOf(name, canonical) ==
  IF name \in BuiltinNames THEN canonical = name
  ELSE canonical \in typenames_ /\ (canonical = name \/ <<Last(canonical)>> = name)

C4_ResolveOutcome ==
  [][(phase = "Resolving" /\ resolve_idx' = resolve_idx + 1) =>
       LET p == unresolved_typespecs_[resolve_idx]
           before == typespecs[p]
           after == typespecs'[p]
       IN /\ after.is_array_ = before.is_array_
          /\ after.type_params_ = before.type_params_
          /\ after.unresolved_name_ = before.unresolved_name_
          /\ InSymbolTable(before.unresolved_name_) =>
               /\ IsResolved(after)
               /\ CanonicalOf(before.unresolved_name_, GetName(after))
               /\ resolve_success' = resolve_success
          /\ ~InSymbolTable(before.unresolved_name_) =>
               /\ after = before
               /\ ~IsResolved(after)
               /\ GetName(after) = GetUnresolvedName(before)
               /\ resolve_success' = FALSE]_vars

C4_BothOutcomes ==
  /\ phase = "Done"
  /\ \E p, q \in DOMAIN typespecs :
       /\ IsResolved(typespecs[p])
       /\ IsArray(typespecs[p])
       /\ IsGeneric(typespecs[p])
       /\ ~IsResolved(typespecs[q])
       /\ GetName(typespecs[q]) = GetUnresolvedName(typespecs[q])
       /\ typespecs[q].fully_qualified_name_ = EmptyString

\* C5: GetInArguments() is the subsequence of GetArguments() with direction
\* IN or INOUT and GetOutArguments() the subsequence with direction OUT or
\* INOUT, both in declaration order.
Positions(m) == [i \in 1..Len(GetArguments(m)) |-> i]

HasDirection(m, i, dirs) == GetArguments(m)[i] \in dirs

C5_ArgumentViews ==
  \A p \in DOMAIN members :
    LET m == members[p]
        InDir(i) == HasDirection(m, i, {IN_DIR, INOUT_DIR})
        OutDir(i) == HasDirection(m, i, {OUT_DIR, INOUT_DIR})
    IN AsMethod(p) # nullptr =>
         /\ GetInArguments(m) = SelectSeq(Positions(m), InDir)
         /\ GetOutArguments(m) = SelectSeq(Positions(m), OutDir)

C5_MixedDirections ==
  \E p \in DOMAIN members :
    /\ AsMethod(p) = p
    /\ GetArguments(members[p]) = <<INOUT_DIR, OUT_DIR, IN_DIR>>
    /\ GetInArguments(members[p]) = <<1, 3>>
    /\ GetOutArguments(members[p]) = <<1, 2>>

\* C6: for every defined type exactly one of AsUnstructuredParcelable,
\* AsStructuredParcelable and AsInterface is non-null; a structured
\* parcelable also answers AsParcelable, an interface answers neither
\* parcelable query.
C6_ExactlyOneKind ==
  \A p \in DOMAIN defined :
    /\ Cardinality({q \in {AsUnstructuredParcelable(p) + 10,
                           AsStructuredParcelable(p) + 20,
                           AsInterface(p) + 30} : q \notin {10, 20, 30}}) = 1
    /\ defined[p].class = "AidlStructuredParcelable" =>
         /\ AsStructuredParcelable(p) = p
         /\ AsParcelable(p) = p
    /\ defined[p].class = "AidlInterface" =>
         /\ AsInterface(p) = p
         /\ AsParcelable(p) = nullptr
         /\ AsStructuredParcelable(p) = nullptr
    /\ defined[p].class = "AidlParcelable" =>
         AsUnstructuredParcelable(p) = p

C6_AllThreeKinds ==
  {defined[p].class : p \in DOMAIN defined} =
    {"AidlParcelable", "AidlStructuredParcelable", "AidlInterface"}

\* C7: the type ReleaseDefinedType returned is no longer listed by
\* GetDefinedTypes().
C7_ReleasedNotListed ==
  released # nullptr =>
    released \notin Range(GetDefinedTypes(defined_types_))

C7_ReleasedAfterSeveralAdds ==
  /\ released # nullptr
  /\ Len(defined_types_) = 3
  /\ \E i \in DOMAIN defined_types_ : defined_types_[i] # nullptr

\* C8: a diagnostic is written as "ERROR: ", the context prefix, the
\* streamed message, a newline, in that order; the process is terminated
\* iff a fatal emitter has been destroyed, and then the newline is the last
\* thing written.
WellFormedDiagnostics(os) ==
  \A i \in DOMAIN os :
    /\ i = 1 => os[i] = "ERROR: "
    /\ os[i] = "ERROR: " =>
         /\ i = 1 \/ os[i - 1] = "\n"
         /\ i + 2 <= Len(os)
         /\ os[i + 1] \in Contexts
         /\ os[i + 2] = ": "
    /\ os[i] \in Contexts => i > 1 /\ os[i - 1] = "ERROR: "
    /\ os[i] = ": " => i > 2 /\ os[i - 1] \in Contexts
    /\ os[i] \in Pieces => i > 3 /\ os[i - 1] \in Pieces \cup {": "}
    /\ os[i] = "\n" => i > 3 /\ os[i - 1] \in Pieces \cup {": "}
    /\ os[i] \in {"ERROR: ", ": ", "\n"} \cup Contexts \cup Pieces

C8_EmitterOrderAndAbort ==
  /\ WellFormedDiagnostics(cerr)
  /\ aborted <=> (emitter.pc = "destroyed" /\ emitter.fatal_)
  /\ emitter.pc = "destroyed" => Last(cerr) = "\n"
  /\ emitter.pc = "constructed" => Last(cerr) # "\n"

C8_FatalAfterNonFatal ==
  /\ aborted
  /\ NumDiags(cerr) = 2
  /\ \E i \in DOMAIN cerr : cerr[i] \in Pieces
  /\ Last(cerr) = "\n"

\* C9: a non-fatal diagnostic of the parser increments the error counter
\* by one and changes nothing else of the parser; the counter equals the
\* number of diagnostics written, parsing goes on, the counter never
\* decreases.
C9_ErrorCounter ==
  /\ [](error_ = NumDiags(cerr))
  /\ [][/\ error_' >= error_
        /\ cerr' # cerr =>
             /\ error_' = error_ + 1
             /\ phase = "Parsing" /\ phase' = "Parsing"
             /\ UNCHANGED <<line, package_, imports_, typespecs,
                            unresolved_typespecs_, typenames_, resolve_idx,
                            resolve_success, resolve_result>>]_vars

C9_ErrorsWhileParsing ==
  /\ phase = "Parsing"
  /\ error_ = 2
  /\ NumDiags(cerr) = 2
  /\ Len(typespecs) > 0

\* C10 (as stated): for every Member instance exactly one of AsMethod() and
\* AsConstantDeclaration() is non-null.
C10_ExactlyOneMemberKind ==
  \A p \in DOMAIN members :
    (AsMethod(p) # nullptr) # (AsConstantDeclaration(p) # nullptr)

\* C11: an Import keeps its needed class from construction on; its
\* GetAidlDocument() is null when it is constructed and stays what it was
\* over every call that is not SetAidlDocument on it (SetFilename
\* included), so it is null until SetAidlDocument is called; right after
\* SetAidlDocument it is the document that was attached.
C11_ImportDocument ==
  [][/\ \A p \in DOMAIN import_nodes :
          /\ GetNeededClass(import_nodes'[p]) = GetNeededClass(import_nodes[p])
          /\ ~(last_call'.op = "SetAidlDocument" /\ last_call'.import = p)
               => GetAidlDocument(import_nodes'[p])
                    = GetAidlDocument(import_nodes[p])
     /\ \A p \in DOMAIN import_nodes' \ DOMAIN import_nodes :
          /\ GetAidlDocument(import_nodes'[p]) = nullptr
          /\ GetNeededClass(import_nodes'[p]) \in ImportNames
     /\ last_call'.op = "SetAidlDocument" =>
          GetAidlDocument(import_nodes'[last_call'.import]) = last_call'.doc
    ]_vars

C11_FilenameSetBeforeDocument ==
  /\ last_call.op = "SetAidlDocument"
  /\ last_call.doc # nullptr
  /\ \E p, q \in DOMAIN import_nodes :
       /\ GetFilename(import_nodes[p]) # ""
       /\ GetAidlDocument(import_nodes[p]) = nullptr
       /\ GetFilename(import_nodes[q]) # ""
       /\ GetAidlDocument(import_nodes[q]) = last_call.doc
       /\ GetNeededClass(import_nodes[q]) = <<"a", "b", "c", "Foo">>

====
